---- MODULE Spec2Model ----
(***************************************************************************)
(* A model of hotfix-cli (src/src/index.ts): the HotfixCLI workflow, its   *)
(* run state, the external commands it invokes and the repository / code   *)
(* host those commands act on.                                             *)
(*                                                                         *)
(* Text is modelled as sequences of one-character strings, so that         *)
(* trimming and replacing are computed, not assumed.                       *)
(***************************************************************************)
EXTENDS Integers, Sequences, FiniteSets, TLC

VARIABLES
  \* ---- HotfixCLI fields and process state
  pc,              \* position of the single thread of control
  args,            \* process.argv.slice(2)
  branchName,      \* this.branchName
  originalBranch,  \* this.originalBranch
  commitMessage,   \* this.commitMessage
  generated,       \* the standard output of commitologist (<<>> if it failed)
  shown,           \* the message the commit-message prompt displayed
  answer,          \* the line the operator typed at that prompt
  exitCode,        \* <<>> while the process runs, <<n>> once it has ended
  \* ---- what the run has done (history)
  cmds,            \* every command handed to executeCommand, in order
  logs,            \* the console lines printed, in order
  caught,          \* the failure run() caught: [step, error] (NoFailure if none)
  errorReported,   \* the error printed by run()'s catch block (NoError if none)
  rollbackCount,   \* how many times rollback() was entered
  \* ---- the environment: repository, remote, code host, clock
  inRepo, authed, head, dirty, localBranch, committed,
  remoteBranch, pr, prTitle, pulled, now

vars == <<pc, args, branchName, originalBranch, commitMessage, generated, shown, answer,
          exitCode,
          cmds, logs, caught, errorReported, rollbackCount,
          inRepo, authed, head, dirty, localBranch, committed,
          remoteBranch, pr, prTitle, pulled, now>>

progVars == <<branchName, originalBranch, commitMessage, generated, shown, answer>>
envVars  == <<inRepo, authed, head, dirty, localBranch, committed,
              remoteBranch, pr, prTitle, pulled, now>>

----------------------------------------------------------------------------
\* Bounds

\* longest text the commit-message generator or the operator produces
MaxLen == 2

\* characters of generated and typed text: a blank and two letters
Alphabet == {" ", "a", "b"}

Texts == UNION {[1..n -> Alphabet] : n \in 0..MaxLen}

----------------------------------------------------------------------------
\* Text helpers

Whitespace == {" ", "\n", "\t"}

RECURSIVE TrimStart(_)
TrimStart(s) ==
  IF s # <<>> /\ Head(s) \in Whitespace THEN TrimStart(Tail(s)) ELSE s

RECURSIVE TrimEnd(_)
TrimEnd(s) ==
  IF s # <<>> /\ s[Len(s)] \in Whitespace
  THEN TrimEnd(SubSeq(s, 1, Len(s) - 1)) ELSE s

\* String.prototype.trim
Trim(s) == TrimEnd(TrimStart(s))

\* the trunk branch name, "main"
Main == <<"m", "a", "i", "n">>

\* another branch the operator may be on
Develop == <<"d", "e", "v">>

\* how a run may find the working tree: on trunk, on another branch, or with a
\* detached HEAD (git branch --show-current then prints nothing)
StartBranches == {Main, Develop, <<>>}

Digits == <<"0", "1", "2", "3", "4", "5", "6", "7", "8", "9">>

RECURSIVE Pad(_, _)
\* the decimal digits of n, zero-padded (or cut) to width w
Pad(n, w) ==
  IF w = 0 THEN <<>> ELSE Pad(n \div 10, w - 1) \o <<Digits[(n % 10) + 1]>>

RECURSIVE Decimal(_)
\* the decimal digits of n without padding
Decimal(n) ==
  IF n < 10 THEN <<Digits[n + 1]>> ELSE Decimal(n \div 10) \o <<Digits[(n % 10) + 1]>>

\* Date.prototype.toISOString: YYYY-MM-DDTHH:mm:ss.sssZ, with the expanded
\* signed six-digit year outside 0..9999
ToISOString(t) ==
  (IF t.y \in 0..9999 THEN Pad(t.y, 4)
   ELSE <<IF t.y < 0 THEN "-" ELSE "+">> \o Pad(IF t.y < 0 THEN -t.y ELSE t.y, 6))
  \o <<"-">> \o Pad(t.mo, 2) \o <<"-">> \o Pad(t.d, 2) \o <<"T">>
  \o Pad(t.h, 2) \o <<":">> \o Pad(t.mi, 2) \o <<":">> \o Pad(t.s, 2)
  \o <<".">> \o Pad(t.ms, 3) \o <<"Z">>

\* Date.prototype.toLocaleString, in its en-US form: M/D/YYYY, h:mm:ss AM
ToLocaleString(t) ==
  Decimal(t.mo) \o <<"/">> \o Decimal(t.d) \o <<"/">>
  \o (IF t.y < 0 THEN <<"-">> \o Decimal(-t.y) ELSE Decimal(t.y)) \o <<",", " ">>
  \o Decimal(IF t.h % 12 = 0 THEN 12 ELSE t.h % 12) \o <<":">> \o Pad(t.mi, 2)
  \o <<":">> \o Pad(t.s, 2) \o <<" ">> \o (IF t.h < 12 THEN <<"A", "M">> ELSE <<"P", "M">>)

\* s.replace(/[cs]/g, c): every character of cs replaced by c
ReplaceAll(s, cs, c) == [i \in 1..Len(s) |-> IF s[i] \in cs THEN c ELSE s[i]]

\* s.replace(a, c) with a string pattern: the first occurrence only
ReplaceFirst(s, a, c) ==
  IF \E i \in 1..Len(s) : s[i] = a
  THEN LET k == CHOOSE i \in 1..Len(s) : s[i] = a /\ \A j \in 1..(i - 1) : s[j] # a
       IN  [i \in 1..Len(s) |-> IF i = k THEN c ELSE s[i]]
  ELSE s

\* s.substring(0, n)
Substring0(s, n) == SubSeq(s, 1, IF Len(s) < n THEN Len(s) ELSE n)

\* the clock readings a run may see
Timestamps ==
  { [y |-> 2025, mo |-> 7, d |-> 30, h |-> 14, mi |-> 30, s |-> 45, ms |-> 123],
    [y |-> 1999, mo |-> 12, d |-> 31, h |-> 23, mi |-> 59, s |-> 59, ms |-> 999],
    [y |-> 275760, mo |-> 9, d |-> 13, h |-> 0, mi |-> 0, s |-> 0, ms |-> 0] }

----------------------------------------------------------------------------
\* Commands and errors

\* one call of executeCommand: the step that made it, the command, its argument
\* and whether the command exited zero
Cmd(by, cmd, arg, ok) == [by |-> by, cmd |-> cmd, arg |-> arg, ok |-> ok]

NoError == [msg |-> "", detail |-> <<>>]

\* new Error(msg), detail being the text interpolated into the message
Err(msg, detail) == [msg |-> msg, detail |-> detail]

\* what executeCommand throws when the command exits non-zero
CommandFailed(c) == Err("Command failed: ", <<c.cmd>> \o c.arg)

NoFailure == [step |-> "", error |-> NoError]

\* the commands that change the repository, the remote or the code host
Mutating ==
  {"git checkout", "git checkout -b", "git add .", "git commit -m", "git push origin",
   "git branch -D", "git pull origin main", "gh pr create", "gh pr merge"}

\* the commands of validateEnvironment, in the order of the source
RevParse(ok)   == Cmd("validateEnvironment", "git rev-parse --git-dir", <<>>, ok)
AuthStatus(ok) == Cmd("validateEnvironment", "gh auth status", <<>>, ok)
ShowBranch(ok) == Cmd("validateEnvironment", "git branch --show-current", <<>>, ok)
Status(ok)     == Cmd("validateEnvironment", "git status --porcelain", <<>>, ok)

\* validateEnvironment with the branch check made before the authentication
\* check
ValidationBranchFirst(ob, ok1, ok2, ok3, out3, ok4, out4) ==
  IF ~ok1 THEN
    [cmds |-> <<RevParse(FALSE)>>, originalBranch |-> ob,
     error |-> Err("Not in a git repository", <<>>)]
  ELSE IF ~ok3 THEN
    [cmds |-> <<RevParse(TRUE), ShowBranch(FALSE)>>,
     originalBranch |-> ob, error |-> CommandFailed(ShowBranch(FALSE))]
  ELSE IF Trim(out3) # Main THEN
    [cmds |-> <<RevParse(TRUE), ShowBranch(TRUE)>>,
     originalBranch |-> Trim(out3),
     error |-> Err("Must be on main branch. Currently on: ", Trim(out3))]
  ELSE IF ~ok2 THEN
    [cmds |-> <<RevParse(TRUE), ShowBranch(TRUE), AuthStatus(FALSE)>>,
     originalBranch |-> Trim(out3),
     error |-> Err("GitHub CLI not authenticated. Run: gh auth login", <<>>)]
  ELSE IF ~ok4 THEN
    [cmds |-> <<RevParse(TRUE), ShowBranch(TRUE), AuthStatus(TRUE), Status(FALSE)>>,
     originalBranch |-> Trim(out3), error |-> CommandFailed(Status(FALSE))]
  ELSE IF Trim(out4) = <<>> THEN
    [cmds |-> <<RevParse(TRUE), ShowBranch(TRUE), AuthStatus(TRUE), Status(TRUE)>>,
     originalBranch |-> Trim(out3), error |-> Err("No changes to commit", <<>>)]
  ELSE
    [cmds |-> <<RevParse(TRUE), ShowBranch(TRUE), AuthStatus(TRUE), Status(TRUE)>>,
     originalBranch |-> Trim(out3), error |-> NoError]

\* validateEnvironment as a function of what its commands return: okN is
\* whether command N exits zero, outN its standard output. The result is the
\* commands invoked, the value left in originalBranch and the error thrown.
Validation(ob, ok1, ok2, ok3, out3, ok4, out4) ==
  IF ~ok1 THEN
    [cmds |-> <<RevParse(FALSE)>>, originalBranch |-> ob,
     error |-> Err("Not in a git repository", <<>>)]
  ELSE IF ~ok2 THEN
    [cmds |-> <<RevParse(TRUE), AuthStatus(FALSE)>>, originalBranch |-> ob,
     error |-> Err("GitHub CLI not authenticated. Run: gh auth login", <<>>)]
  ELSE IF ~ok3 THEN
    [cmds |-> <<RevParse(TRUE), AuthStatus(TRUE), ShowBranch(FALSE)>>,
     originalBranch |-> ob, error |-> CommandFailed(ShowBranch(FALSE))]
  ELSE IF Trim(out3) # Main THEN
    [cmds |-> <<RevParse(TRUE), AuthStatus(TRUE), ShowBranch(TRUE)>>,
     originalBranch |-> Trim(out3),
     error |-> Err("Must be on main branch. Currently on: ", Trim(out3))]
  ELSE IF ~ok4 THEN
    [cmds |-> <<RevParse(TRUE), AuthStatus(TRUE), ShowBranch(TRUE), Status(FALSE)>>,
     originalBranch |-> Trim(out3), error |-> CommandFailed(Status(FALSE))]
  ELSE IF Trim(out4) = <<>> THEN
    [cmds |-> <<RevParse(TRUE), AuthStatus(TRUE), ShowBranch(TRUE), Status(TRUE)>>,
     originalBranch |-> Trim(out3), error |-> Err("No changes to commit", <<>>)]
  ELSE
    [cmds |-> <<RevParse(TRUE), AuthStatus(TRUE), ShowBranch(TRUE), Status(TRUE)>>,
     originalBranch |-> Trim(out3), error |-> NoError]

\* the fallback message of generateCommitMessage
Fallback(t) ==
  <<"H", "o", "t", "f", "i", "x", ":", " ",
    "a", "u", "t", "o", "m", "a", "t", "e", "d", " ", "f", "i", "x", " ", "(">>
  \o ToLocaleString(t) \o <<")">>

\* the resolution without the test for an empty message: whatever a successful
\* generator printed is taken
ResolvedMessageUnchecked(ok, out, t) ==
  IF ok THEN Trim(out) ELSE Fallback(t)

\* the message generateCommitMessage resolves before it prompts: the trimmed
\* output of commitologist, or the fallback when the command fails or prints
\* nothing but white space
ResolvedMessage(ok, out, t) ==
  IF ok /\ Trim(out) # <<>> THEN Trim(out) ELSE Fallback(t)

\* the edit without the trim: resolve(answer || this.commitMessage)
EditedMessageNoTrim(line, current) ==
  IF line # <<>> THEN line ELSE current

\* resolve(answer.trim() || this.commitMessage)
EditedMessage(line, current) ==
  IF Trim(line) # <<>> THEN Trim(line) ELSE current

\* the length generateBranchName cuts the timestamp to
StampLen == 19

\* generateBranchName with a pattern that is not global: only the first colon
\* or period is replaced
BranchNameOfFirstOnly(t) ==
  <<"h", "o", "t", "f", "i", "x", "-">>
  \o Substring0(ReplaceFirst(ReplaceFirst(ToISOString(t), ":", "-"), "T", "-"),
                StampLen)

\* generateBranchName
BranchNameOf(t) ==
  <<"h", "o", "t", "f", "i", "x", "-">>
  \o Substring0(ReplaceFirst(ReplaceAll(ToISOString(t), {":", "."}, "-"), "T", "-"),
                StampLen)

\* the longest pull-request title createPR passes on
TitleMax == 70

\* the title of createPR
TitleOf(m) == IF Len(m) > TitleMax THEN Substring0(m, TitleMax) ELSE m

\* rollback without its two guards: both commands are issued whatever was
\* recorded
RollbackRunUnguarded(ob, bn, okCheckout, okDelete) ==
  LET co  == <<Cmd("rollback", "git checkout", ob, okCheckout)>>
      del == <<Cmd("rollback", "git branch -D", bn, okDelete)>>
  IN  IF ~okCheckout
      THEN [cmds |-> co, logs |-> <<"Rolling back changes...", "Rollback failed:">>]
      ELSE [cmds |-> co \o del,
            logs |-> <<"Rolling back changes...", "Rollback completed">>]

\* rollback deleting the branch first, outside any inner try: a failed deletion
\* ends rollback before the checkout
RollbackRunDeleteFirst(ob, bn, okCheckout, okDelete) ==
  LET co  == IF ob # <<>> THEN <<Cmd("rollback", "git checkout", ob, okCheckout)>>
             ELSE <<>>
      del == IF bn # <<>> THEN <<Cmd("rollback", "git branch -D", bn, okDelete)>>
             ELSE <<>>
  IN  IF bn # <<>> /\ ~okDelete
      THEN [cmds |-> del, logs |-> <<"Rolling back changes...", "Rollback failed:">>]
      ELSE IF ob # <<>> /\ ~okCheckout
      THEN [cmds |-> del \o co,
            logs |-> <<"Rolling back changes...", "Rollback failed:">>]
      ELSE [cmds |-> del \o co,
            logs |-> <<"Rolling back changes...", "Rollback completed">>]

\* rollback without the inner try around the deletion: a failed deletion is
\* reported as a failed rollback
RollbackRunDeleteThrows(ob, bn, okCheckout, okDelete) ==
  LET co  == IF ob # <<>> THEN <<Cmd("rollback", "git checkout", ob, okCheckout)>>
             ELSE <<>>
      del == IF bn # <<>> THEN <<Cmd("rollback", "git branch -D", bn, okDelete)>>
             ELSE <<>>
  IN  IF ob # <<>> /\ ~okCheckout
      THEN [cmds |-> co, logs |-> <<"Rolling back changes...", "Rollback failed:">>]
      ELSE IF bn # <<>> /\ ~okDelete
      THEN [cmds |-> co \o del,
            logs |-> <<"Rolling back changes...", "Rollback failed:">>]
      ELSE [cmds |-> co \o del,
            logs |-> <<"Rolling back changes...", "Rollback completed">>]

\* rollback as a function of what its commands return: the commands invoked
\* and the lines logged. The checkout is attempted only with an original branch
\* recorded; its failure leaves the try block, so the deletion is not
\* attempted; the deletion's own failure is swallowed.
RollbackRun(ob, bn, okCheckout, okDelete) ==
  LET co  == IF ob # <<>> THEN <<Cmd("rollback", "git checkout", ob, okCheckout)>>
             ELSE <<>>
      del == IF bn # <<>> THEN <<Cmd("rollback", "git branch -D", bn, okDelete)>>
             ELSE <<>>
  IN  IF ob # <<>> /\ ~okCheckout
      THEN [cmds |-> co, logs |-> <<"Rolling back changes...", "Rollback failed:">>]
      ELSE [cmds |-> co \o del,
            logs |-> <<"Rolling back changes...", "Rollback completed">>]

----------------------------------------------------------------------------
\* The initial state: the process has started, nothing has run

ArgLists ==
  {<<>>, <<"--help">>, <<"-h">>, <<"--version">>, <<"-v">>,
   <<"-v", "-h">>, <<"now", "--help">>, <<"now", "--version">>}

Init ==
  /\ pc = "main"
  /\ args \in ArgLists
  /\ branchName = <<>>
  /\ originalBranch = <<>>
  /\ commitMessage = <<>>
  /\ generated = <<>>
  /\ shown = <<>>
  /\ answer = <<>>
  /\ exitCode = <<>>
  /\ cmds = <<>>
  /\ logs = <<>>
  /\ caught = NoFailure
  /\ errorReported = NoError
  /\ rollbackCount = 0
  /\ inRepo \in BOOLEAN
  /\ authed \in BOOLEAN
  /\ head \in StartBranches
  /\ dirty \in BOOLEAN
  /\ localBranch = FALSE
  /\ committed = FALSE
  /\ remoteBranch = FALSE
  /\ pr = "none"
  /\ prTitle = <<>>
  /\ pulled = FALSE
  /\ now \in Timestamps

----------------------------------------------------------------------------
\* run(): sequencing and the catch block

\* a step returned: run() goes on to the next one
Continue(next, lines) ==
  /\ pc' = next
  /\ logs' = logs \o lines
  /\ UNCHANGED <<caught, errorReported, rollbackCount, exitCode, args>>

\* a catch block that exits without calling rollback()
CatchNoRollback(step, err, lines) ==
  /\ pc' = "exit"
  /\ caught' = [step |-> step, error |-> err]
  /\ errorReported' = err
  /\ logs' = logs \o lines \o <<"Hotfix workflow failed:">>
  /\ UNCHANGED <<rollbackCount, exitCode, args>>

\* a catch block that calls rollback() without printing the error
CatchNoReport(step, err, lines) ==
  /\ pc' = "rollback"
  /\ caught' = [step |-> step, error |-> err]
  /\ errorReported' = errorReported
  /\ logs' = logs \o lines
  /\ UNCHANGED <<rollbackCount, exitCode, args>>

\* a failure that is printed where it happens and not thrown on: run() goes on
\* to the step after the one that failed
CatchAndGoOn(step, err, lines) ==
  /\ pc' = CASE step = "validateEnvironment"   -> "generateCommitMessage"
            [] step = "createAndSwitchBranch" -> "commitChanges"
            [] step = "commitChanges"         -> "pushBranch"
            [] step = "pushBranch"            -> "createPR"
            [] step = "createPR"              -> "mergePR"
            [] step = "mergePR"               -> "cleanup"
            [] OTHER                          -> "rollback"
  /\ caught' = [step |-> step, error |-> err]
  /\ errorReported' = err
  /\ logs' = logs \o lines \o <<"Hotfix workflow failed:">>
  /\ UNCHANGED <<rollbackCount, exitCode, args>>

\* a step threw: run()'s catch block prints the error and calls rollback()
Catch(step, err, lines) ==
  /\ pc' = "rollback"
  /\ caught' = [step |-> step, error |-> err]
  /\ errorReported' = err
  /\ logs' = logs \o lines \o <<"Hotfix workflow failed:">>
  /\ UNCHANGED <<rollbackCount, exitCode, args>>

\* the top-level script without its process.exit(0) calls: the text is printed
\* and cli.run() starts all the same
ParseArgsNoExit ==
  /\ pc = "main"
  /\ pc' = "validateEnvironment"
  /\ exitCode' = exitCode
  /\ logs' = logs
             \o (IF \E i \in 1..Len(args) : args[i] \in {"--help", "-h"}
                 THEN <<"hotfix - Automated hotfix workflow for GitHub">> ELSE <<>>)
             \o (IF \E i \in 1..Len(args) : args[i] \in {"--version", "-v"}
                 THEN <<"1.0.3">> ELSE <<>>)
             \o <<"Starting automated hotfix workflow...">>
  /\ UNCHANGED <<args, caught, errorReported, rollbackCount, cmds>>
  /\ UNCHANGED progVars
  /\ UNCHANGED envVars

\* the top-level script: a help or version flag ends the process with status
\* 0, otherwise cli.run() starts
ParseArgs ==
  /\ pc = "main"
  /\ IF \E i \in 1..Len(args) : args[i] \in {"--help", "-h"} THEN
       /\ pc' = "done"
       /\ exitCode' = <<0>>
       /\ logs' = logs \o <<"hotfix - Automated hotfix workflow for GitHub">>
     ELSE IF \E i \in 1..Len(args) : args[i] \in {"--version", "-v"} THEN
       /\ pc' = "done"
       /\ exitCode' = <<0>>
       /\ logs' = logs \o <<"1.0.3">>
     ELSE
       /\ pc' = "validateEnvironment"
       /\ exitCode' = exitCode
       /\ logs' = logs \o <<"Starting automated hotfix workflow...">>
  /\ UNCHANGED <<args, caught, errorReported, rollbackCount, cmds>>
  /\ UNCHANGED progVars
  /\ UNCHANGED envVars

\* what git status --porcelain prints
StatusOutput(d) == IF d THEN <<" ", "M", " ", "f", "\n">> ELSE <<>>

ValidateEnvironment ==
  /\ pc = "validateEnvironment"
  /\ \E ok3 \in BOOLEAN, ok4 \in BOOLEAN :
       LET v == Validation(originalBranch, inRepo, authed, ok3, head \o <<"\n">>,
                           ok4, StatusOutput(dirty))
       IN  /\ cmds' = cmds \o v.cmds
           /\ originalBranch' = v.originalBranch
           /\ IF v.error.msg = ""
              THEN Continue("generateCommitMessage", <<"Environment validation passed">>)
              ELSE Catch("validateEnvironment", v.error, <<>>)
  /\ UNCHANGED <<branchName, commitMessage, generated, shown, answer>>
  /\ UNCHANGED envVars

\* the first half of generateCommitMessage: the generator runs, the message is
\* resolved and the prompt is shown
GenerateCommitMessage ==
  /\ pc = "generateCommitMessage"
  /\ \E ok \in BOOLEAN, out \in Texts :
       /\ cmds' = Append(cmds, Cmd("generateCommitMessage", "commitologist", <<>>, ok))
       /\ commitMessage' = ResolvedMessage(ok, out, now)
       /\ shown' = ResolvedMessage(ok, out, now)
       /\ generated' = IF ok THEN out ELSE <<>>
       /\ Continue("question",
                   IF ok /\ Trim(out) # <<>>
                   THEN <<"Generated smart commit message from commitologist">>
                   ELSE <<"Using fallback commit message">>)
  /\ UNCHANGED <<branchName, originalBranch, answer>>
  /\ UNCHANGED envVars

\* the second half: the operator answers the prompt
AnswerQuestion ==
  /\ pc = "question"
  /\ \E line \in Texts :
       /\ answer' = line
       /\ commitMessage' = EditedMessage(line, commitMessage)
  /\ Continue("generateBranchName", <<"Final commit message:">>)
  /\ UNCHANGED <<branchName, originalBranch, generated, shown, cmds>>
  /\ UNCHANGED envVars

GenerateBranchName ==
  /\ pc = "generateBranchName"
  /\ branchName' = BranchNameOf(now)
  /\ Continue("createAndSwitchBranch", <<"Generated branch name:">>)
  /\ UNCHANGED <<originalBranch, commitMessage, generated, shown, answer, cmds>>
  /\ UNCHANGED envVars

CreateAndSwitchBranch ==
  /\ pc = "createAndSwitchBranch"
  /\ \E ok \in BOOLEAN :
       LET c == Cmd("createAndSwitchBranch", "git checkout -b", branchName, ok)
       IN  /\ cmds' = Append(cmds, c)
           /\ IF ok THEN /\ head' = branchName
                         /\ localBranch' = TRUE
                         /\ Continue("commitChanges", <<>>)
              ELSE /\ UNCHANGED <<head, localBranch>>
                   /\ Catch("createAndSwitchBranch", CommandFailed(c), <<>>)
  /\ UNCHANGED progVars
  /\ UNCHANGED <<inRepo, authed, dirty, committed, remoteBranch, pr, prTitle, pulled, now>>

CommitChanges ==
  /\ pc = "commitChanges"
  /\ \E okAdd \in BOOLEAN, okCommit \in BOOLEAN :
       LET add    == Cmd("commitChanges", "git add .", <<>>, okAdd)
           commit == Cmd("commitChanges", "git commit -m", commitMessage, okCommit)
       IN  IF ~okAdd THEN
             /\ cmds' = cmds \o <<add>>
             /\ UNCHANGED <<dirty, committed>>
             /\ Catch("commitChanges", CommandFailed(add), <<>>)
           ELSE IF ~okCommit THEN
             /\ cmds' = cmds \o <<add, commit>>
             /\ UNCHANGED <<dirty, committed>>
             /\ Catch("commitChanges", CommandFailed(commit), <<>>)
           ELSE
             /\ cmds' = cmds \o <<add, commit>>
             /\ dirty' = FALSE
             /\ committed' = TRUE
             /\ Continue("pushBranch", <<"Changes committed">>)
  /\ UNCHANGED progVars
  /\ UNCHANGED <<inRepo, authed, head, localBranch, remoteBranch, pr, prTitle, pulled, now>>

PushBranch ==
  /\ pc = "pushBranch"
  /\ \E ok \in BOOLEAN :
       LET c == Cmd("pushBranch", "git push origin", branchName, ok)
       IN  /\ cmds' = Append(cmds, c)
           /\ IF ok THEN /\ remoteBranch' = TRUE
                         /\ Continue("createPR", <<>>)
              ELSE /\ UNCHANGED remoteBranch
                   /\ Catch("pushBranch", CommandFailed(c), <<>>)
  /\ UNCHANGED progVars
  /\ UNCHANGED <<inRepo, authed, head, dirty, localBranch, committed, pr, prTitle, pulled, now>>

CreatePR ==
  /\ pc = "createPR"
  /\ \E ok \in BOOLEAN :
       LET c == Cmd("createPR", "gh pr create", branchName, ok)
       IN  /\ cmds' = Append(cmds, c)
           /\ IF ok THEN /\ pr' = "open"
                         /\ prTitle' = TitleOf(commitMessage)
                         /\ Continue("mergePR", <<"Pull request created">>)
              ELSE /\ UNCHANGED <<pr, prTitle>>
                   /\ Catch("createPR", CommandFailed(c), <<>>)
  /\ UNCHANGED progVars
  /\ UNCHANGED <<inRepo, authed, head, dirty, localBranch, committed, remoteBranch, pulled, now>>

\* whether the commands cs include a run of cmd that exited zero
Succeeded(cs, cmd) == \E i \in 1..Len(cs) : cs[i].cmd = cmd /\ cs[i].ok

\* mergePR without its try block: a failed automatic merge is thrown
MergeRunNoFallback(bn, okMerge, okView) ==
  LET merge == Cmd("mergePR", "gh pr merge", bn, okMerge)
  IN  IF okMerge
      THEN [cmds |-> <<merge>>, error |-> NoError, wait |-> FALSE,
            logs |-> <<"Pull request merged and remote branch deleted">>]
      ELSE [cmds |-> <<merge>>, error |-> CommandFailed(merge), wait |-> FALSE,
            logs |-> <<>>]

\* mergePR without its wait: after the browser is opened it returns at once
MergeRunNoWait(bn, okMerge, okView) ==
  LET merge == Cmd("mergePR", "gh pr merge", bn, okMerge)
      view  == Cmd("mergePR", "gh pr view --web", bn, okView)
  IN  IF okMerge
      THEN [cmds |-> <<merge>>, error |-> NoError, wait |-> FALSE,
            logs |-> <<"Pull request merged and remote branch deleted">>]
      ELSE IF ~okView
      THEN [cmds |-> <<merge, view>>, error |-> CommandFailed(view), wait |-> FALSE,
            logs |-> <<"Automatic merge failed.">>]
      ELSE [cmds |-> <<merge, view>>, error |-> NoError, wait |-> FALSE,
            logs |-> <<"Automatic merge failed.",
                       "Press Enter after you have merged the pull request">>]

\* mergePR up to its return or its wait, as a function of what its commands
\* return: the automatic merge and, when that fails, the opening of the pull
\* request in the browser, whose own failure is thrown
MergeRun(bn, okMerge, okView) ==
  LET merge == Cmd("mergePR", "gh pr merge", bn, okMerge)
      view  == Cmd("mergePR", "gh pr view --web", bn, okView)
  IN  IF okMerge
      THEN [cmds |-> <<merge>>, error |-> NoError, wait |-> FALSE,
            logs |-> <<"Pull request merged and remote branch deleted">>]
      ELSE IF ~okView
      THEN [cmds |-> <<merge, view>>, error |-> CommandFailed(view), wait |-> FALSE,
            logs |-> <<"Automatic merge failed.">>]
      ELSE [cmds |-> <<merge, view>>, error |-> NoError, wait |-> TRUE,
            logs |-> <<"Automatic merge failed.",
                       "Press Enter after you have merged the pull request">>]

MergePR ==
  /\ pc = "mergePR"
  /\ \E okMerge \in BOOLEAN, okView \in BOOLEAN :
       LET m == MergeRun(branchName, okMerge, okView)
       IN  /\ cmds' = cmds \o m.cmds
           /\ pr' = IF Succeeded(m.cmds, "gh pr merge") THEN "merged" ELSE pr
           /\ remoteBranch' = (remoteBranch /\ ~Succeeded(m.cmds, "gh pr merge"))
           /\ IF m.error.msg # "" THEN Catch("mergePR", m.error, m.logs)
              ELSE Continue(IF m.wait THEN "waitForUserInput" ELSE "cleanup", m.logs)
  /\ UNCHANGED progVars
  /\ UNCHANGED <<inRepo, authed, head, dirty, localBranch, committed, prTitle, pulled, now>>

\* the operator presses Enter, having merged the pull request or not
WaitForUserInput ==
  /\ pc = "waitForUserInput"
  /\ \E merged \in BOOLEAN :
       /\ pr' = IF merged THEN "merged" ELSE pr
       /\ remoteBranch' = IF merged THEN FALSE ELSE remoteBranch
  /\ Continue("cleanup", <<"Manual merge completed, continuing with cleanup...">>)
  /\ UNCHANGED cmds
  /\ UNCHANGED progVars
  /\ UNCHANGED <<inRepo, authed, head, dirty, localBranch, committed, prTitle, pulled, now>>

\* run() returned: the success line is printed and the process ends
Completed(lines) ==
  /\ pc' = "done"
  /\ logs' = logs \o lines \o <<"Hotfix workflow completed successfully!">>
  /\ exitCode' = <<0>>
  /\ UNCHANGED <<caught, errorReported, rollbackCount, args>>

\* git branch -D can succeed only on a branch that exists and is not checked out
DeleteOutcomes(exists, h, bn) == IF exists /\ h # bn THEN BOOLEAN ELSE {FALSE}

\* cleanup without the try block around the deletion: a failed deletion is
\* thrown
CleanupRunStrict(bn, okCheckout, okPull, okDelete) ==
  LET checkout == Cmd("cleanup", "git checkout", Main, okCheckout)
      pull     == Cmd("cleanup", "git pull origin main", <<>>, okPull)
      delete   == Cmd("cleanup", "git branch -D", bn, okDelete)
  IN  IF ~okCheckout
      THEN [cmds |-> <<checkout>>, error |-> CommandFailed(checkout), logs |-> <<>>]
      ELSE IF ~okPull
      THEN [cmds |-> <<checkout, pull>>, error |-> CommandFailed(pull), logs |-> <<>>]
      ELSE IF ~okDelete
      THEN [cmds |-> <<checkout, pull, delete>>, error |-> CommandFailed(delete),
            logs |-> <<>>]
      ELSE [cmds |-> <<checkout, pull, delete>>, error |-> NoError,
            logs |-> <<"Local branch deleted", "Cleanup completed">>]

\* cleanup without its third step: the local branch is left in place
CleanupRunNoDelete(bn, okCheckout, okPull, okDelete) ==
  LET checkout == Cmd("cleanup", "git checkout", Main, okCheckout)
      pull     == Cmd("cleanup", "git pull origin main", <<>>, okPull)
  IN  IF ~okCheckout
      THEN [cmds |-> <<checkout>>, error |-> CommandFailed(checkout), logs |-> <<>>]
      ELSE IF ~okPull
      THEN [cmds |-> <<checkout, pull>>, error |-> CommandFailed(pull), logs |-> <<>>]
      ELSE [cmds |-> <<checkout, pull>>, error |-> NoError,
            logs |-> <<"Cleanup completed">>]

\* cleanup as a function of what its commands return: a failed checkout or
\* pull is thrown, a failed deletion is logged and swallowed
CleanupRun(bn, okCheckout, okPull, okDelete) ==
  LET checkout == Cmd("cleanup", "git checkout", Main, okCheckout)
      pull     == Cmd("cleanup", "git pull origin main", <<>>, okPull)
      delete   == Cmd("cleanup", "git branch -D", bn, okDelete)
  IN  IF ~okCheckout
      THEN [cmds |-> <<checkout>>, error |-> CommandFailed(checkout), logs |-> <<>>]
      ELSE IF ~okPull
      THEN [cmds |-> <<checkout, pull>>, error |-> CommandFailed(pull), logs |-> <<>>]
      ELSE [cmds |-> <<checkout, pull, delete>>, error |-> NoError,
            logs |-> <<IF okDelete THEN "Local branch deleted"
                       ELSE "Local branch already deleted or not found",
                       "Cleanup completed">>]

Cleanup ==
  /\ pc = "cleanup"
  /\ \E okCheckout \in BOOLEAN, okPull \in BOOLEAN :
       \E okDelete \in DeleteOutcomes(localBranch, Main, branchName) :
         LET c == CleanupRun(branchName, okCheckout, okPull, okDelete)
         IN  /\ cmds' = cmds \o c.cmds
             /\ head' = IF Succeeded(c.cmds, "git checkout") THEN Main ELSE head
             /\ pulled' = (pulled \/ Succeeded(c.cmds, "git pull origin main"))
             /\ localBranch' = (localBranch /\ ~Succeeded(c.cmds, "git branch -D"))
             /\ IF c.error.msg # "" THEN Catch("cleanup", c.error, c.logs)
                ELSE Completed(c.logs)
  /\ UNCHANGED progVars
  /\ UNCHANGED <<inRepo, authed, dirty, committed, remoteBranch, pr, prTitle, now>>

Rollback ==
  /\ pc = "rollback"
  /\ \E okCheckout \in BOOLEAN :
       LET h == IF originalBranch # <<>> /\ okCheckout THEN originalBranch ELSE head
       IN  \E okDelete \in DeleteOutcomes(localBranch, h, branchName) :
             LET r == RollbackRun(originalBranch, branchName, okCheckout, okDelete)
             IN  /\ cmds' = cmds \o r.cmds
                 /\ logs' = logs \o r.logs
                 /\ head' = IF Succeeded(r.cmds, "git checkout")
                            THEN originalBranch ELSE head
                 /\ localBranch' = (localBranch /\ ~Succeeded(r.cmds, "git branch -D"))
  /\ rollbackCount' = rollbackCount + 1
  /\ pc' = "exit"
  /\ UNCHANGED <<caught, errorReported, exitCode, args>>
  /\ UNCHANGED progVars
  /\ UNCHANGED <<inRepo, authed, dirty, committed, remoteBranch, pr, prTitle, pulled, now>>

\* process.exit(1), the last statement of run()'s catch block
\* the catch block ending the process with status 0
ProcessExitZero ==
  /\ pc = "exit"
  /\ pc' = "done"
  /\ exitCode' = <<0>>
  /\ UNCHANGED <<args, cmds, logs, caught, errorReported, rollbackCount>>
  /\ UNCHANGED progVars
  /\ UNCHANGED envVars

ProcessExit ==
  /\ pc = "exit"
  /\ pc' = "done"
  /\ exitCode' = <<1>>
  /\ UNCHANGED <<args, cmds, logs, caught, errorReported, rollbackCount>>
  /\ UNCHANGED progVars
  /\ UNCHANGED envVars

Next ==
  \/ ParseArgs
  \/ ValidateEnvironment
  \/ GenerateCommitMessage
  \/ AnswerQuestion
  \/ GenerateBranchName
  \/ CreateAndSwitchBranch
  \/ CommitChanges
  \/ PushBranch
  \/ CreatePR
  \/ MergePR
  \/ WaitForUserInput
  \/ Cleanup
  \/ Rollback
  \/ ProcessExit

Spec == Init /\ [][Next]_vars

\* every external command eventually returns and the operator eventually
\* answers every prompt: a step that can be taken is eventually taken
FairSpec == Spec /\ WF_vars(Next)

-----------------------------------------------------------------------------
\* Termination by the operating system

\* a termination that the program would handle by rolling back, as if a
\* signal handler had been installed
KillHandled ==
  /\ pc \notin {"done", "killed", "rollback", "exit"}
  /\ pc' = "rollback"
  /\ UNCHANGED <<args, progVars, exitCode, cmds, logs, caught, errorReported,
                 rollbackCount, envVars>>

\* the program installs no signal handler: a signal ends the process between
\* two steps wherever it stands; no catch block runs, nothing is printed and
\* exit is not called
Kill ==
  /\ pc \notin {"done", "killed"}
  /\ pc' = "killed"
  /\ UNCHANGED <<args, progVars, exitCode, cmds, logs, caught, errorReported,
                 rollbackCount, envVars>>

NextKill ==
  \/ Next
  \/ Kill

SpecKill == Init /\ [][NextKill]_vars

----------------------------------------------------------------------------
\* Vocabulary of the properties

\* step by has invoked command cmd
Has(by, cmd) == \E i \in 1..Len(cmds) : cmds[i].by = by /\ cmds[i].cmd = cmd

\* step by has invoked command cmd and it exited non-zero
Failed(by, cmd) ==
  \E i \in 1..Len(cmds) : cmds[i].by = by /\ cmds[i].cmd = cmd /\ ~cmds[i].ok

\* the line has been printed
Printed(line) == \E i \in 1..Len(logs) : logs[i] = line

\* the commands invoked by one step, in order
RanBy(step) == SelectSeq(cmds, LAMBDA c : c.by = step)

\* the steps from branch creation through cleanup
MutatingSteps ==
  {"createAndSwitchBranch", "commitChanges", "pushBranch", "createPR", "mergePR",
   "cleanup"}

\* rollback() has returned
RolledBack == pc \in {"exit", "done"} /\ caught.step # ""

----------------------------------------------------------------------------
\* C1 as stated: once pre-flight validation has failed, no mutating command is
\* ever invoked in the run, the commands of rollback included.
C1_NoMutatingCommandAfterPreflightFailure ==
  caught.step = "validateEnvironment" =>
    \A i \in 1..Len(cmds) : cmds[i].cmd \notin Mutating

\* C1 as amended: once pre-flight validation has failed, no branch is created,
\* nothing is committed, pushed, pulled or proposed, and the only mutating
\* command invoked in the whole run is rollback's git checkout of the branch
\* validation recorded, which is the branch already checked out.
C1_PreflightFailureChangesNothing ==
  caught.step = "validateEnvironment" =>
    /\ branchName = <<>>
    /\ ~localBranch /\ ~committed /\ ~remoteBranch /\ pr = "none" /\ ~pulled
    /\ \A i \in 1..Len(cmds) :
         cmds[i].cmd \in Mutating =>
           /\ cmds[i].by = "rollback"
           /\ cmds[i].cmd = "git checkout"
           /\ cmds[i].arg = originalBranch
           /\ originalBranch # <<>>
           /\ originalBranch = head

\* a run that failed validation on the wrong branch has ended, rollback's
\* checkout having been invoked
C1_Witness ==
  /\ pc = "done"
  /\ caught.step = "validateEnvironment"
  /\ caught.error.msg = "Must be on main branch. Currently on: "
  /\ Has("rollback", "git checkout")

\* C2: when a step from branch creation through cleanup has failed, the
\* original branch recorded is "main", rollback has attempted its checkout by
\* the time it returns, and the process ends with status 1.
C2_RollbackChecksOutOriginalBranch ==
  caught.step \in MutatingSteps =>
    /\ originalBranch = Main
    /\ pc \in {"rollback", "exit", "done"}
    /\ (pc \in {"exit", "done"} =>
          \E i \in 1..Len(cmds) :
            /\ cmds[i].by = "rollback"
            /\ cmds[i].cmd = "git checkout"
            /\ cmds[i].arg = Main)
    /\ (pc = "done" => exitCode = <<1>>)

\* a run whose cleanup failed has ended after a rollback whose checkout was
\* attempted and failed
C2_Witness ==
  /\ pc = "done"
  /\ caught.step = "cleanup"
  /\ Failed("rollback", "git checkout")

\* the automatic merge command was run and exited non-zero
AutoMergeFailed == Failed("mergePR", "gh pr merge")

\* the operator's manual-confirmation input has been received
InputReceived == Printed("Manual merge completed, continuing with cleanup...")

\* cleanup has been reached: it is the next step, or its first command has run
CleanupReached == pc = "cleanup" \/ Has("cleanup", "git checkout")

\* C3 as stated: in a run whose automatic merge failed, the merge step never
\* fails the workflow, and cleanup is reached once the input is received.
C3_MergeFailureNeverAborts ==
  AutoMergeFailed =>
    /\ caught.step # "mergePR"
    /\ (InputReceived => CleanupReached)

\* C3 as amended: in a run whose automatic merge failed, the merge step fails
\* the workflow only with the failure of gh pr view --web, never with the
\* failure of the merge command; when that command succeeds the run waits for
\* the operator, and cleanup is reached once the input is received.
C3_MergeFailureAbortsOnlyOnView ==
  AutoMergeFailed =>
    /\ Has("mergePR", "gh pr view --web")
    /\ (caught.step = "mergePR" <=> Failed("mergePR", "gh pr view --web"))
    /\ (caught.step = "mergePR" =>
          caught.error = CommandFailed(Cmd("mergePR", "gh pr view --web",
                                           branchName, FALSE)))
    /\ (~Failed("mergePR", "gh pr view --web") =>
          \/ pc = "waitForUserInput" /\ ~InputReceived
          \/ InputReceived /\ CleanupReached)

\* a run whose automatic merge failed has completed after the operator's input
C3_Witness ==
  /\ AutoMergeFailed
  /\ InputReceived
  /\ pc = "done"
  /\ exitCode = <<0>>
  /\ Has("cleanup", "git checkout")

\* C4 as stated: rollback runs at most once, and only for a failure of a step
\* from branch creation through cleanup.
C4_RollbackOnlyAfterBranchCreation ==
  /\ rollbackCount <= 1
  /\ (rollbackCount >= 1 => caught.step \in MutatingSteps)

\* C4 as amended: rollback runs at most once, and it has run exactly when a
\* step has failed and the catch block has got past it; the steps that fail
\* are pre-flight validation and the steps from branch creation through
\* cleanup, never commit-message resolution or branch naming.
C4_RollbackOncePerFailure ==
  /\ rollbackCount <= 1
  /\ (rollbackCount = 1 <=> RolledBack)
  /\ caught.step \in {"", "validateEnvironment"} \cup MutatingSteps
  /\ (caught.step # "" <=> pc \in {"rollback", "exit"} \/ exitCode = <<1>>)

\* rollback has run for a failure of pre-flight validation
C4_Witness ==
  /\ rollbackCount = 1
  /\ caught.step = "validateEnvironment"
  /\ pc = "done"

\* C5 as stated, for the runs most favourable to it, those in which no command
\* of rollback failed: after a failed run has finished, the working tree is on
\* the original branch and neither the local hotfix branch, nor the pushed
\* remote branch, nor the pull request remains.
C5_FullRollback ==
  ( /\ pc = "done"
    /\ caught.step # ""
    /\ ~Failed("rollback", "git checkout")
    /\ ~Failed("rollback", "git branch -D") ) =>
      /\ (originalBranch # <<>> => head = originalBranch)
      /\ ~localBranch
      /\ ~remoteBranch
      /\ pr = "none"

\* rollback's deletion of the generated branch has been invoked
DeletionAttempted ==
  \E i \in 1..Len(cmds) :
    /\ cmds[i].by = "rollback"
    /\ cmds[i].cmd = "git branch -D"
    /\ cmds[i].arg = branchName

\* C6 as stated: whenever rollback has run with a branch name generated, it
\* has attempted to delete that branch, a failed deletion is not logged as a
\* rollback failure, and after a failure of PR creation the current branch is
\* the original branch and the generated branch is absent.
C6_RollbackAlwaysDeletesBranch ==
  (RolledBack /\ branchName # <<>>) =>
    /\ DeletionAttempted
    /\ (Failed("rollback", "git branch -D") =>
          Printed("Rollback completed") /\ ~Printed("Rollback failed:"))
    /\ (caught.step = "createPR" => head = originalBranch /\ ~localBranch)

\* C6 as amended: whenever rollback has run with a branch name generated, it
\* has attempted to delete that branch unless its checkout of the original
\* branch failed, in which case the deletion is not attempted and the rollback
\* failure is logged; a failed deletion is not logged as a rollback failure and
\* leaves the exit status 1; and after a failure of PR creation and a rollback
\* whose two commands succeeded, the current branch is the original branch and
\* the generated branch is absent.
C6_RollbackDeletesBranchAfterCheckout ==
  (RolledBack /\ branchName # <<>>) =>
    /\ Has("rollback", "git checkout")
    /\ (DeletionAttempted <=> ~Failed("rollback", "git checkout"))
    /\ (Failed("rollback", "git checkout") => Printed("Rollback failed:"))
    /\ (Failed("rollback", "git branch -D") =>
          /\ Printed("Rollback completed")
          /\ ~Printed("Rollback failed:")
          /\ (pc = "done" => exitCode = <<1>>))
    /\ ( ( /\ caught.step = "createPR"
           /\ ~Failed("rollback", "git checkout")
           /\ ~Failed("rollback", "git branch -D") )
         => head = originalBranch /\ ~localBranch )

\* PR creation failed after a successful push, and rollback has returned to
\* the original branch and deleted the generated branch
C6_Witness ==
  /\ pc = "done"
  /\ caught.step = "createPR"
  /\ Succeeded(cmds, "git push origin")
  /\ DeletionAttempted
  /\ head = originalBranch
  /\ ~localBranch

\* C7: whenever a step has failed, the error printed is the error of that
\* step, whatever happens in rollback; and the process has exited with status
\* 1 only after the error was printed and rollback has run, and does so in
\* every failed run that ends.
C7_RollbackNeverMasksFailure ==
  /\ (caught.step # "" =>
        /\ caught.error.msg # ""
        /\ errorReported = caught.error
        /\ Printed("Hotfix workflow failed:"))
  /\ (exitCode = <<1>> =>
        /\ caught.step # ""
        /\ errorReported = caught.error
        /\ rollbackCount = 1)
  /\ (pc = "done" /\ caught.step # "" => exitCode = <<1>>)
  /\ (caught.step = "" => errorReported = NoError /\ exitCode # <<1>>)

\* a failed run has ended after a rollback that itself failed
C7_Witness ==
  /\ pc = "done"
  /\ exitCode = <<1>>
  /\ caught.step = "pushBranch"
  /\ Printed("Rollback failed:")

\* the commands of validateEnvironment, by name, in the source's order
ValidationOrder ==
  <<"git rev-parse --git-dir", "gh auth status", "git branch --show-current",
    "git status --porcelain">>

\* C8: validation's commands are invoked in the fixed order repository,
\* authentication, branch, changes; none is invoked after one that failed or
\* after the branch check found another branch; the failure reported is that
\* of the first check that does not hold; validation passes only with all
\* four holding; and originalBranch is recorded only after checks 1 and 2.
C8_ValidationOrderAndShortCircuit ==
  LET vc == RanBy("validateEnvironment")
      n  == Len(vc)
      failedHere == caught.step = "validateEnvironment"
      msg == caught.error.msg
  IN  /\ n <= 4
      /\ \A i \in 1..n : vc[i].cmd = ValidationOrder[i]
      /\ \A i \in 1..(n - 1) : vc[i].ok
      /\ (originalBranch # <<>> => n >= 3 /\ vc[1].ok /\ vc[2].ok /\ vc[3].ok)
      /\ (failedHere =>
            /\ (msg = "Not in a git repository" <=> n = 1)
            /\ (n = 1 => ~vc[1].ok /\ ~inRepo)
            /\ (msg = "GitHub CLI not authenticated. Run: gh auth login" <=> n = 2)
            /\ (n = 2 => ~vc[2].ok /\ inRepo /\ ~authed)
            /\ (msg = "Must be on main branch. Currently on: "
                  <=> n = 3 /\ vc[3].ok)
            /\ (n = 3 /\ vc[3].ok => head # Main /\ originalBranch = head)
            /\ (msg = "No changes to commit" <=> n = 4 /\ vc[4].ok)
            /\ (n = 4 => head = Main /\ originalBranch = Main)
            /\ (n = 4 /\ vc[4].ok => ~dirty)
            /\ (msg = "Command failed: " <=> n >= 3 /\ ~vc[n].ok)
            /\ (n >= 3 => inRepo /\ authed))
      /\ (pc \notin {"main", "validateEnvironment"} /\ n > 0 /\ ~failedHere =>
            /\ n = 4 /\ vc[4].ok
            /\ originalBranch = Main
            /\ inRepo /\ authed
            /\ Printed("Environment validation passed"))
      /\ (pc = "generateCommitMessage" => head = Main /\ dirty)

\* validation has failed in a directory that is a repository, without
\* authentication, on another branch and without changes: checks 2, 3 and 4
\* would all fail, and the failure of check 2 is the one reported
C8_Witness ==
  /\ caught.step = "validateEnvironment"
  /\ inRepo /\ ~authed /\ head = Develop /\ ~dirty
  /\ caught.error.msg = "GitHub CLI not authenticated. Run: gh auth login"
  /\ Len(cmds) = 2

\* C9: a failed checkout or pull of cleanup fails the workflow (the failure is
\* caught as cleanup's, rollback runs, the status is 1, no success line); a
\* failed deletion in cleanup is swallowed (no failure caught, no rollback,
\* status 0, success line printed).
C9_CleanupFailureHandling ==
  /\ (Failed("cleanup", "git checkout") \/ Failed("cleanup", "git pull origin main")
        => /\ caught.step = "cleanup"
           /\ pc \in {"rollback", "exit", "done"}
           /\ (pc \in {"exit", "done"} => rollbackCount = 1)
           /\ (pc = "done" => exitCode = <<1>>)
           /\ ~Has("cleanup", "git branch -D")
           /\ ~Printed("Hotfix workflow completed successfully!"))
  /\ (Failed("cleanup", "git branch -D")
        => /\ caught = NoFailure
           /\ rollbackCount = 0
           /\ pc = "done"
           /\ exitCode = <<0>>
           /\ Printed("Local branch already deleted or not found")
           /\ Printed("Hotfix workflow completed successfully!"))

\* a run has completed although cleanup's deletion of the local branch failed
C9_Witness ==
  /\ pc = "done"
  /\ Failed("cleanup", "git branch -D")
  /\ localBranch

\* the operator has answered the commit-message prompt
Answered == Printed("Final commit message:")

\* C10 as stated: an empty response keeps the message shown, a non-empty
\* response replaces it character for character.
C10_ResponseReplacesVerbatim ==
  Answered =>
    /\ (answer = <<>> => commitMessage = shown)
    /\ (answer # <<>> => commitMessage = answer)

\* C10 as amended: a response that is empty or all white space keeps the
\* message shown; any other response replaces it with the response stripped of
\* its leading and trailing white space.
C10_ResponseReplacesTrimmed ==
  Answered =>
    /\ (\A i \in 1..Len(answer) : answer[i] \in Whitespace) => commitMessage = shown
    /\ (\E i \in 1..Len(answer) : answer[i] \notin Whitespace) =>
         LET first == CHOOSE i \in 1..Len(answer) :
                        /\ answer[i] \notin Whitespace
                        /\ \A j \in 1..(i - 1) : answer[j] \in Whitespace
             last  == CHOOSE i \in 1..Len(answer) :
                        /\ answer[i] \notin Whitespace
                        /\ \A j \in (i + 1)..Len(answer) : answer[j] \in Whitespace
         IN  commitMessage = SubSeq(answer, first, last)

\* the operator has answered with text that has white space around it
C10_Witness ==
  /\ Answered
  /\ answer # <<>>
  /\ answer[1] \in Whitespace
  /\ \E i \in 1..Len(answer) : answer[i] \notin Whitespace
  /\ commitMessage # answer

\* the commit-message generator has been run
GeneratorRan == Has("generateCommitMessage", "commitologist")

\* the text has no character other than white space
Blank(s) == \A i \in 1..Len(s) : s[i] \in Whitespace

\* C11: when the generator fails or prints nothing (or only white space), the
\* message resolved is the timestamped fallback and no failure is caught for
\* it; a generator that printed text never yields the fallback line; and from
\* the commit-message step on the commit message is never empty.
C11_FallbackAndNonEmptyMessage ==
  GeneratorRan =>
    /\ caught.step # "generateCommitMessage"
    /\ (Failed("generateCommitMessage", "commitologist") \/ Blank(generated) =>
          /\ shown = Fallback(now)
          /\ Printed("Using fallback commit message")
          /\ ~Printed("Generated smart commit message from commitologist"))
    /\ (~Failed("generateCommitMessage", "commitologist") /\ ~Blank(generated) =>
          /\ Printed("Generated smart commit message from commitologist")
          /\ \E i \in 1..Len(generated) : \E j \in i..Len(generated) :
               shown = SubSeq(generated, i, j))
    /\ Len(shown) > 0
    /\ Len(commitMessage) > 0
    /\ commitMessage[1] \notin Whitespace
    /\ (~Answered => commitMessage = shown)

\* a run has completed whose generator succeeded but printed nothing, the
\* operator having kept the fallback message
C11_Witness ==
  /\ pc = "done"
  /\ exitCode = <<0>>
  /\ ~Failed("generateCommitMessage", "commitologist")
  /\ generated = <<>>
  /\ commitMessage = Fallback(now)

\* validation has passed and no command invoked so far has exited non-zero
AllSucceeded ==
  /\ Printed("Environment validation passed")
  /\ \A i \in 1..Len(cmds) : cmds[i].ok

\* C12: while validation has passed and every command has succeeded, nothing is
\* caught and rollback does not run; and when such a run has ended, the
\* working tree is on "main", the pull has been done, the generated branch is
\* absent locally, the pull request is merged with its remote branch deleted,
\* the success line is printed and the exit status is 0.
C12_SuccessfulRunEndsOnTrunk ==
  AllSucceeded =>
    /\ caught = NoFailure
    /\ rollbackCount = 0
    /\ exitCode # <<1>>
    /\ (pc = "done" =>
          /\ head = Main
          /\ pulled
          /\ ~localBranch
          /\ pr = "merged"
          /\ ~remoteBranch
          /\ Succeeded(cmds, "git branch -D")
          /\ Printed("Hotfix workflow completed successfully!")
          /\ exitCode = <<0>>)

\* a run in which every command succeeded, the automatic merge included, has
\* ended
C12_Witness ==
  /\ AllSucceeded
  /\ pc = "done"
  /\ Succeeded(cmds, "gh pr merge")
  /\ Succeeded(cmds, "commitologist")

----------------------------------------------------------------------------
\* Branch naming over the range of the clock

\* clock readings across the range of Date: the first and last representable
\* years, years around the four-digit boundaries, and the extremes of every
\* other field
StampClock ==
  [y  : {-271821, -1, 0, 1, 999, 1970, 2025, 9999, 10000, 275760},
   mo : {1, 7, 12}, d : {1, 30}, h : {0, 14}, mi : {0, 30, 59}, s : {0, 45},
   ms : {0, 123, 999}]

\* the run about to name its branch: validation has passed, the generator was
\* absent and the operator kept the fallback message
StampInit ==
  /\ pc = "generateBranchName"
  /\ args = <<>>
  /\ branchName = <<>>
  /\ originalBranch = Main
  /\ now \in StampClock
  /\ generated = <<>>
  /\ shown = Fallback(now)
  /\ commitMessage = Fallback(now)
  /\ answer = <<>>
  /\ exitCode = <<>>
  /\ cmds = <<RevParse(TRUE), AuthStatus(TRUE), ShowBranch(TRUE), Status(TRUE),
              Cmd("generateCommitMessage", "commitologist", <<>>, FALSE)>>
  /\ logs = <<"Starting automated hotfix workflow...", "Environment validation passed",
              "Using fallback commit message", "Final commit message:">>
  /\ caught = NoFailure
  /\ errorReported = NoError
  /\ rollbackCount = 0
  /\ inRepo = TRUE
  /\ authed = TRUE
  /\ head = Main
  /\ dirty = TRUE
  /\ localBranch = FALSE
  /\ committed = FALSE
  /\ remoteBranch = FALSE
  /\ pr = "none"
  /\ prTitle = <<>>
  /\ pulled = FALSE

StampNext == GenerateBranchName

SpecStamp == StampInit /\ [][StampNext]_vars

\* the characters of a timestamp once colons, periods and the T are replaced
StampChars == {Digits[i] : i \in 1..10} \cup {"-", "+"}

\* C13: the branch name generated is "hotfix-" followed by exactly 19
\* characters, none of them a colon or a period (all are digits, hyphens or
\* the sign of an expanded year); generating it invokes no command and throws
\* nothing; and the clock reading 2025-07-30T14:30:45.123Z gives
\* hotfix-2025-07-30-14-30-45.
C13_BranchNamePattern ==
  branchName # <<>> =>
    /\ Len(branchName) = 26
    /\ SubSeq(branchName, 1, 7) = <<"h", "o", "t", "f", "i", "x", "-">>
    /\ \A i \in 8..Len(branchName) :
         branchName[i] \notin {":", "."} /\ branchName[i] \in StampChars
    /\ ~\E i \in 1..Len(cmds) : cmds[i].by = "generateBranchName"
    /\ caught.step # "generateBranchName"
    /\ (now = [y |-> 2025, mo |-> 7, d |-> 30, h |-> 14, mi |-> 30, s |-> 45,
               ms |-> 123]
          => branchName = <<"h", "o", "t", "f", "i", "x", "-",
                            "2", "0", "2", "5", "-", "0", "7", "-", "3", "0", "-",
                            "1", "4", "-", "3", "0", "-", "4", "5">>)

\* a branch has been named in the last representable year, whose ISO form
\* carries a sign and six digits
C13_Witness ==
  /\ pc = "createAndSwitchBranch"
  /\ now.y = 275760
  /\ branchName[8] = "+"
  /\ Len(branchName) = 26

\* the state branch naming starts from in this range check is one the full
\* workflow reaches
StampInitReached ==
  /\ pc = "generateBranchName"
  /\ originalBranch = Main
  /\ generated = <<>> /\ answer = <<>>
  /\ shown = Fallback(now) /\ commitMessage = Fallback(now)
  /\ cmds = <<RevParse(TRUE), AuthStatus(TRUE), ShowBranch(TRUE), Status(TRUE),
              Cmd("generateCommitMessage", "commitologist", <<>>, FALSE)>>
  /\ logs = <<"Starting automated hotfix workflow...", "Environment validation passed",
              "Using fallback commit message", "Final commit message:">>
  /\ inRepo /\ authed /\ head = Main /\ dirty

\* the arguments hold a help flag or a version flag
Flagged ==
  \E i \in 1..Len(args) : args[i] \in {"--help", "-h", "--version", "-v"}

\* C14: in a process started with a help or version flag no workflow step ever
\* runs: no command is invoked, no prompt is shown, nothing is caught or
\* rolled back, the only line printed is the help or version text, and the
\* process ends with status 0.
C14_FlagsShortCircuit ==
  Flagged =>
    /\ pc \in {"main", "done"}
    /\ cmds = <<>>
    /\ shown = <<>> /\ answer = <<>> /\ commitMessage = <<>> /\ branchName = <<>>
    /\ caught = NoFailure
    /\ rollbackCount = 0
    /\ ~Printed("Starting automated hotfix workflow...")
    /\ (pc = "main" => logs = <<>> /\ exitCode = <<>>)
    /\ (pc = "done" =>
          /\ exitCode = <<0>>
          /\ logs \in {<<"hotfix - Automated hotfix workflow for GitHub">>, <<"1.0.3">>})

\* a process started with a version flag after another argument has ended
C14_Witness ==
  /\ args = <<"now", "--version">>
  /\ pc = "done"
  /\ exitCode = <<0>>
  /\ logs = <<"1.0.3">>

\* the place of each position of the thread of control in the fixed sequence
PcRank(p) ==
  CASE p = "main"                  -> 0
    [] p = "validateEnvironment"   -> 1
    [] p = "generateCommitMessage" -> 2
    [] p = "question"              -> 3
    [] p = "generateBranchName"    -> 4
    [] p = "createAndSwitchBranch" -> 5
    [] p = "commitChanges"         -> 6
    [] p = "pushBranch"            -> 7
    [] p = "createPR"              -> 8
    [] p = "mergePR"               -> 9
    [] p = "waitForUserInput"      -> 10
    [] p = "cleanup"               -> 11
    [] p = "rollback"              -> 12
    [] p = "exit"                  -> 13
    [] p = "done"                  -> 14

\* the place of each step in the fixed sequence, rollback coming last
StepRank(step) ==
  CASE step = "validateEnvironment"   -> 1
    [] step = "generateCommitMessage" -> 2
    [] step = "generateBranchName"    -> 4
    [] step = "createAndSwitchBranch" -> 5
    [] step = "commitChanges"         -> 6
    [] step = "pushBranch"            -> 7
    [] step = "createPR"              -> 8
    [] step = "mergePR"               -> 9
    [] step = "cleanup"               -> 11
    [] step = "rollback"              -> 12

\* a step of the given rank has invoked a command
Started(rank) ==
  \E i \in 1..Len(cmds) : cmds[i].by # "rollback" /\ StepRank(cmds[i].by) = rank

\* every step before the given rank has completed, its failures recovered
EarlierCompleted(rank) ==
  /\ rank > 1 => /\ Len(RanBy("validateEnvironment")) = 4
                 /\ \A i \in 1..4 : RanBy("validateEnvironment")[i].ok
  /\ rank > 2 => GeneratorRan
  /\ rank > 3 => Answered
  /\ rank > 4 => branchName # <<>>
  /\ rank > 5 => Succeeded(cmds, "git checkout -b")
  /\ rank > 6 => Succeeded(cmds, "git add .") /\ Succeeded(cmds, "git commit -m")
  /\ rank > 7 => Succeeded(cmds, "git push origin")
  /\ rank > 8 => Succeeded(cmds, "gh pr create")
  /\ rank > 9 => Succeeded(cmds, "gh pr merge") \/ Succeeded(cmds, "gh pr view --web")
  /\ rank > 10 => Succeeded(cmds, "gh pr merge") \/ InputReceived

\* what C15 says of the commands invoked so far
PipelineOrder ==
  /\ \A i \in 1..Len(cmds) : \A j \in (i + 1)..Len(cmds) :
       /\ StepRank(cmds[i].by) <= StepRank(cmds[j].by)
       /\ ~(cmds[i].by = cmds[j].by /\ cmds[i].cmd = cmds[j].cmd)
  /\ \A rank \in {1, 2, 5, 6, 7, 8, 9, 11} : Started(rank) => EarlierCompleted(rank)
  /\ (caught.step # "" =>
        \A i \in 1..Len(cmds) :
          cmds[i].by = "rollback" \/ StepRank(cmds[i].by) <= StepRank(caught.step))
  /\ (caught.step = "" /\ pc # "done" => EarlierCompleted(PcRank(pc)))

\* C15: every step of the process moves the thread of control strictly forward
\* in the fixed sequence, so no step runs twice; the commands invoked follow
\* the order of the steps, none twice; a step has invoked a command only with
\* every earlier step completed; and once a failure is caught, no command of a
\* step after the failed one is invoked, only rollback's.
C15_PhasesOnlyAdvance ==
  [][PcRank(pc') > PcRank(pc) /\ PipelineOrder']_vars

\* a run whose push failed has ended after rollback's commands
C15_Witness ==
  /\ pc = "done"
  /\ caught.step = "pushBranch"
  /\ Has("rollback", "git checkout")
  /\ Has("rollback", "git branch -D")

\* the merge is considered complete: the automatic merge succeeded, or it
\* failed and the operator's input has been received
MergeConsideredComplete ==
  \/ Succeeded(cmds, "gh pr merge")
  \/ AutoMergeFailed /\ InputReceived

\* C16: cleanup's first command is invoked only with the merge considered
\* complete; and while the run waits for the operator's input, the only step
\* it can take is the receipt of that input, which invokes no command and
\* hands over to cleanup.
C16_CleanupOnlyAfterMerge ==
  [][ /\ (Has("cleanup", "git checkout") => MergeConsideredComplete)'
      /\ (pc' = "cleanup" => MergeConsideredComplete')
      /\ (pc = "waitForUserInput" =>
            /\ ~InputReceived /\ InputReceived'
            /\ pc' = "cleanup"
            /\ cmds' = cmds
            /\ exitCode' = exitCode) ]_vars

\* cleanup has started after a failed automatic merge and the operator's
\* input, the pull request being in fact still open
C16_Witness ==
  /\ AutoMergeFailed
  /\ InputReceived
  /\ Has("cleanup", "git checkout")
  /\ pr = "open"

\* the process has been ended by the operating system
Killed == pc = "killed"

\* the working tree is on the generated branch with the operator's changes
\* uncommitted, or committed and not pushed
StrandedOnBranch ==
  /\ branchName # <<>>
  /\ head = branchName
  /\ \/ dirty
     \/ committed /\ ~remoteBranch

\* C17: a termination by the operating system invokes no command and runs no
\* rollback, nothing happens after it, and rollback is only ever entered from
\* the catch block of run() with a caught failure; so a process killed without
\* a caught failure has invoked no rollback command.
C17_KillSkipsRollback ==
  [][ /\ ~Killed
      /\ (Killed' => cmds' = cmds /\ logs' = logs /\ rollbackCount' = rollbackCount
                     /\ exitCode' = exitCode)
      /\ (pc' = "rollback" => pc # "rollback" /\ caught'.step # "")
      /\ (rollbackCount' # rollbackCount => pc = "rollback" /\ caught.step # "")
      /\ ((Killed /\ caught.step = "" => RanBy("rollback") = <<>>))' ]_vars

\* the process has been killed on the generated branch, the changes committed
\* and not pushed, and no rollback command has been invoked
C17_Witness ==
  /\ Killed
  /\ StrandedOnBranch
  /\ committed /\ ~dirty
  /\ RanBy("rollback") = <<>>
  /\ rollbackCount = 0

\* the same with the changes still uncommitted
C17_WitnessUncommitted ==
  /\ Killed
  /\ StrandedOnBranch
  /\ dirty /\ ~committed
  /\ RanBy("rollback") = <<>>

\* the operator's changes are still in the working tree or index, or in a
\* commit reachable from a local branch, a remote branch or the merged trunk
ChangesPreserved ==
  \/ dirty
  \/ committed /\ (localBranch \/ remoteBranch \/ pr = "merged")

\* C18: a run that passed validation (so that there were pending changes) and
\* has ended normally, by success or by a caught failure followed by rollback,
\* leaves the operator's changes preserved.
C18_ChangesNeverLost ==
  pc = "done" /\ Printed("Environment validation passed") => ChangesPreserved

\* the run has ended in success: every step completed, cleanup included, the
\* success line printed, nothing caught, no rollback, exit status 0
SuccessOutcome ==
  /\ EarlierCompleted(PcRank("cleanup"))
  /\ Succeeded(cmds, "git checkout") /\ Succeeded(cmds, "git pull origin main")
  /\ Has("cleanup", "git branch -D")
  /\ Printed("Hotfix workflow completed successfully!")
  /\ caught = NoFailure /\ errorReported = NoError
  /\ rollbackCount = 0
  /\ RanBy("rollback") = <<>>
  /\ exitCode = <<0>>

\* the run has ended in failure: the error reported, rollback invoked once,
\* exit status 1
FailureOutcome ==
  /\ caught.step # "" /\ caught.error.msg # ""
  /\ errorReported = caught.error
  /\ Printed("Hotfix workflow failed:")
  /\ Printed("Rolling back changes...")
  /\ rollbackCount = 1
  /\ ~Printed("Hotfix workflow completed successfully!")
  /\ exitCode = <<1>>

\* the process has ended
Ended == pc = "done"

\* C19: with every command returning and every prompt answered, the process
\* ends; a run of the workflow (a process started without help or version
\* flag) that has ended has ended in success or in failure and not in both;
\* and at no point of a run has the success line been printed with rollback
\* invoked, now or later.
C19_TerminatesInOneOfTwoWays ==
  /\ <>Ended
  /\ [](Ended /\ ~Flagged => (SuccessOutcome /\ ~FailureOutcome)
                             \/ (FailureOutcome /\ ~SuccessOutcome))
  /\ [](exitCode # <<>> <=> Ended)
  /\ [](Printed("Hotfix workflow completed successfully!") =>
          Ended /\ rollbackCount = 0 /\ RanBy("rollback") = <<>>)
  /\ [](rollbackCount > 0 => ~Printed("Hotfix workflow completed successfully!"))

\* a run whose automatic merge failed has ended in success through the
\* operator's input
C19_Witness ==
  /\ Ended
  /\ SuccessOutcome
  /\ AutoMergeFailed /\ InputReceived

\* a run has ended in failure after a failed cleanup
C19_WitnessFailure ==
  /\ Ended
  /\ FailureOutcome
  /\ caught.step = "cleanup"

====
